---------------------------- MODULE Spec2Model ----------------------------
(***************************************************************************)
(* A model of the stabilized supralinear network simulator: the kernel     *)
(* builder, the stimulus generators, the periodic convolution, the         *)
(* run_trial stepping loop (src/models/ssn_model.py) and the condition     *)
(* sweep of src/main.py.                                                   *)
(*                                                                         *)
(* Grids are records [sh |-> <<rows, cols>>, v |-> values] indexed from 0  *)
(* as numpy indexes them.  Activity and drive values are integers; kernel  *)
(* weights are exact rationals w/den (the unnormalised weight over the     *)
(* kernel's sum).  The time configuration is IEEE-754 binary64, computed   *)
(* bit for bit, because int(trial_duration / bin_size) depends on it.      *)
(***************************************************************************)
EXTENDS Integers, Sequences, FiniteSets, TLC

(***************************************************************************)
(* IEEE-754 binary64 for the time configuration.  A double is a record     *)
(* [z, s, hi, lo, e]: zero flag, sign, the 53-bit significand as two limbs *)
(* (hi * 2^27 + lo) and the exponent of its leading bit.                   *)
(***************************************************************************)
Limb == 134217728

RECURSIVE Pow2(_)
Pow2(k) == IF k = 0 THEN 1 ELSE 2 * Pow2(k - 1)

\* Scale num/den into [1, 2), counting the binary exponent.
RECURSIVE Normalise(_, _, _)
Normalise(num, den, e) ==
    IF num < den THEN Normalise(2 * num, den, e - 1)
    ELSE IF num >= 2 * den THEN Normalise(num, 2 * den, e + 1)
    ELSE [num |-> num, den |-> den, e |-> e]

\* Append one bit to a two-limb significand.
PushBit(m, bit) ==
    LET lo2 == 2 * m.lo + bit
    IN  [hi |-> 2 * m.hi + (lo2 \div Limb), lo |-> lo2 % Limb]

\* Round to nearest, ties to even: up says the discarded part is above one
\* half, tie that it is exactly one half.
RoundSig(m, e, up, tie) ==
    LET odd == (m.lo % 2) = 1
        inc == up \/ (tie /\ odd)
        lo1 == IF inc THEN m.lo + 1 ELSE m.lo
        hi1 == m.hi + (lo1 \div Limb)
        lo2 == lo1 % Limb
    IN  IF hi1 = Limb \div 2 /\ lo2 = 0 /\ inc
        THEN [hi |-> Limb \div 4, lo |-> 0, e |-> e + 1]
        ELSE [hi |-> hi1, lo |-> lo2, e |-> e]

\* One further significand bit of r/den by long division; s = [m, r], r < den.
DecimalStep(s, den) ==
    LET r2  == 2 * s.r
        bit == IF r2 >= den THEN 1 ELSE 0
    IN  [m |-> PushBit(s.m, bit), r |-> r2 - bit * den]

\* The long division runs over a one-element set of states, so that every
\* intermediate state is computed once.
DecimalStep1(S, den) == { DecimalStep(s, den) : s \in S }

DecimalStep4(S, den) ==
    DecimalStep1(DecimalStep1(DecimalStep1(DecimalStep1(S, den), den), den), den)

DecimalStep16(S, den) ==
    DecimalStep4(DecimalStep4(DecimalStep4(DecimalStep4(S, den), den), den), den)

\* The 52 bits after the leading one.
DecimalBits(r, den) ==
    DecimalStep4(DecimalStep16(DecimalStep16(DecimalStep16(
        { [m |-> [hi |-> 0, lo |-> 1], r |-> r] }, den), den), den), den)

\* The double nearest to the decimal literal c/d (d > 0), as Python's parser
\* gives it.
FromDecimal(c, d) ==
    IF c = 0 THEN [z |-> TRUE, s |-> 1, hi |-> 0, lo |-> 0, e |-> 0]
    ELSE LET a  == IF c < 0 THEN -c ELSE c
             nz == Normalise(a, d, 0)
         IN  CHOOSE x \in
                 { [z |-> FALSE, s |-> IF c < 0 THEN -1 ELSE 1,
                    hi |-> rd.hi, lo |-> rd.lo, e |-> rd.e] :
                   rd \in { RoundSig(b.m, nz.e, 2 * b.r > nz.den, 2 * b.r = nz.den) :
                            b \in DecimalBits(nz.num - nz.den, nz.den) } } : TRUE

\* Two-limb naturals: comparison, difference (a >= b) and doubling.
BigGeq(a, b) == a.hi > b.hi \/ (a.hi = b.hi /\ a.lo >= b.lo)

BigEq(a, b) == a.hi = b.hi /\ a.lo = b.lo

BigSub(a, b) ==
    IF a.lo >= b.lo THEN [hi |-> a.hi - b.hi, lo |-> a.lo - b.lo]
    ELSE [hi |-> a.hi - b.hi - 1, lo |-> a.lo + Limb - b.lo]

BigDouble(a) == PushBit(a, 0)

\* One further quotient bit of r/den for two-limb r < den; s = [m, r].
QuotientStep(s, den) ==
    LET r2  == BigDouble(s.r)
        one == BigGeq(r2, den)
    IN  [m |-> PushBit(s.m, IF one THEN 1 ELSE 0),
         r |-> IF one THEN BigSub(r2, den) ELSE r2]

QuotientStep1(S, den) == { QuotientStep(s, den) : s \in S }

QuotientStep4(S, den) ==
    QuotientStep1(QuotientStep1(QuotientStep1(QuotientStep1(S, den), den), den), den)

QuotientStep16(S, den) ==
    QuotientStep4(QuotientStep4(QuotientStep4(QuotientStep4(S, den), den), den), den)

\* The 52 bits after the leading one.
QuotientBits(r, den) ==
    QuotientStep4(QuotientStep16(QuotientStep16(QuotientStep16(
        { [m |-> [hi |-> 0, lo |-> 1], r |-> r] }, den), den), den), den)

\* a / b in binary64, correctly rounded; a and b are not zero.
DivideSignificands(a, b) ==
    LET ma  == [hi |-> a.hi, lo |-> a.lo]
        mb  == [hi |-> b.hi, lo |-> b.lo]
        ge  == BigGeq(ma, mb)
        r0  == IF ge THEN BigSub(ma, mb) ELSE BigSub(BigDouble(ma), mb)
        e0  == IF ge THEN a.e - b.e ELSE a.e - b.e - 1
    IN  CHOOSE x \in
            { [z |-> FALSE, s |-> a.s * b.s, hi |-> rd.hi, lo |-> rd.lo, e |-> rd.e] :
              rd \in { RoundSig(q.m, e0,
                                BigGeq(BigDouble(q.r), mb) /\ ~BigEq(BigDouble(q.r), mb),
                                BigEq(BigDouble(q.r), mb)) :
                       q \in QuotientBits(r0, mb) } } : TRUE

\* a / b for a divisor that is not zero.
FloatDiv(a, b) ==
    CHOOSE q \in { IF x.z THEN x ELSE DivideSignificands(x, y) : x \in {a}, y \in {b} } : TRUE

\* int(x): truncation toward zero (the values here stay below 2^27).
FloatToInt(x) ==
    IF x.z \/ x.e < 0 THEN 0
    ELSE LET shift == 52 - x.e
             mag   == IF shift >= 27 THEN x.hi \div Pow2(shift - 27)
                      ELSE x.hi * Pow2(27 - shift) + (x.lo \div Pow2(shift))
         IN  x.s * mag

(***************************************************************************)
(* Grids and numpy's elementwise arithmetic with broadcasting.             *)
(***************************************************************************)
\* Python's None, and the value of a local that is not bound.
None == [kind |-> "None"]

Max(a, b) == IF a >= b THEN a ELSE b

Abs(a) == IF a < 0 THEN -a ELSE a

Cells(sh) == (0 .. sh[1] - 1) \X (0 .. sh[2] - 1)

Const(sh, c) == [sh |-> sh, v |-> [p \in Cells(sh) |-> c]]

\* np.zeros(shape)
Zeros(sh) == Const(sh, 0)

\* Two shapes broadcast together when each axis agrees or one side is 1.
Broadcastable(s1, s2) ==
    \A d \in 1 .. 2 : s1[d] = s2[d] \/ s1[d] = 1 \/ s2[d] = 1

BroadcastShape(s1, s2) == <<Max(s1[1], s2[1]), Max(s1[2], s2[2])>>

\* The cell of g that position p of a broadcast result reads.
At(g, p) ==
    g.v[<<IF g.sh[1] = 1 THEN 0 ELSE p[1], IF g.sh[2] = 1 THEN 0 ELSE p[2]>>]

Add(a, b) ==
    LET sh == BroadcastShape(a.sh, b.sh)
    IN  [sh |-> sh, v |-> [p \in Cells(sh) |-> At(a, p) + At(b, p)]]

Subtract(a, b) ==
    LET sh == BroadcastShape(a.sh, b.sh)
    IN  [sh |-> sh, v |-> [p \in Cells(sh) |-> At(a, p) - At(b, p)]]

Multiply(a, b) ==
    LET sh == BroadcastShape(a.sh, b.sh)
    IN  [sh |-> sh, v |-> [p \in Cells(sh) |-> At(a, p) * At(b, p)]]

\* A slice assignment target[...] = src broadcasts src into the target's shape.
AssignableTo(src, sh) ==
    \A d \in 1 .. 2 : src.sh[d] = sh[d] \/ src.sh[d] = 1

BroadcastTo(src, sh) == [sh |-> sh, v |-> [p \in Cells(sh) |-> At(src, p)]]

\* np.sum and np.max over a grid, cell by cell in row-major order.
RECURSIVE SumFrom(_, _)
SumFrom(g, k) ==
    IF k = g.sh[1] * g.sh[2] THEN 0
    ELSE g.v[<<k \div g.sh[2], k % g.sh[2]>>] + SumFrom(g, k + 1)

GridSum(g) == SumFrom(g, 0)

GridMax(g) == CHOOSE m \in {g.v[p] : p \in Cells(g.sh)} :
                  \A p \in Cells(g.sh) : g.v[p] <= m

AllZero(g) == \A p \in Cells(g.sh) : g.v[p] = 0

NonNegative(g) == \A p \in Cells(g.sh) : g.v[p] >= 0

(***************************************************************************)
(* SSNModel.create_ssn_connectivity.  Weights are kept exact: a kernel is  *)
(* [sh, v, den], cell p weighing v[p] / den.  exp and cos^2 are tabulated  *)
(* to two decimals and to halves.                                          *)
(***************************************************************************)
\* 100 * exp(-d2 / (2 * sigma^2)), rounded, for the squared distances of a
\* grid of up to 5 x 5 cells.
Gaussian(d2, sigma) ==
    CASE sigma = 1 -> (CASE d2 = 0 -> 100 [] d2 = 1 -> 61 [] d2 = 2 -> 37
                         [] d2 = 4 -> 14 [] d2 = 5 -> 8 [] d2 = 8 -> 2)
      [] sigma = 2 -> (CASE d2 = 0 -> 100 [] d2 = 1 -> 88 [] d2 = 2 -> 78
                         [] d2 = 4 -> 61 [] d2 = 5 -> 54 [] d2 = 8 -> 37)

\* 2 * cos^2 of an angle in degrees, for multiples of 45 degrees.
CosSquared(deg) ==
    CASE deg % 180 = 0  -> 2
      [] deg % 180 = 90 -> 0
      [] deg % 90 = 45  -> 1

\* x, y = np.meshgrid(np.arange(size_x), np.arange(size_y)) have shape
\* (size_y, size_x): x holds the column index and y the row index.
DistancesSquared(size_x, size_y) ==
    LET cx == size_x \div 2
        cy == size_y \div 2
    IN  [sh |-> <<size_y, size_x>>,
         v |-> [p \in Cells(<<size_y, size_x>>) |->
                  (p[2] - cx) * (p[2] - cx) + (p[1] - cy) * (p[1] - cy)]]

OrientationSimilarity(orientation_map) ==
    LET cx == orientation_map.sh[1] \div 2
        cy == orientation_map.sh[2] \div 2
        c0 == orientation_map.v[<<cx, cy>>]
    IN  [sh |-> orientation_map.sh,
         v |-> [p \in Cells(orientation_map.sh) |->
                  CosSquared(Abs(orientation_map.v[p] - c0))]]

\* kernel /= np.sum(kernel)
NormaliseKernel(unnormalised) ==
    [sh |-> unnormalised.sh, v |-> unnormalised.v, den |-> GridSum(unnormalised)]

\* exp(-distances**2 / (2 * sigma**2)) * orientation_similarity, normalised.
Kernel(orientation_map, sigma) ==
    LET d2    == DistancesSquared(orientation_map.sh[1], orientation_map.sh[2])
        gauss == [sh |-> d2.sh, v |-> [p \in Cells(d2.sh) |-> Gaussian(d2.v[p], sigma)]]
    IN  NormaliseKernel(Multiply(gauss, OrientationSimilarity(orientation_map)))

\* The product of the (size_y, size_x) distances and the (size_x, size_y)
\* similarity raises ValueError unless the two shapes broadcast.
ConnectivityRaises(orientation_map) ==
    ~Broadcastable(<<orientation_map.sh[2], orientation_map.sh[1]>>, orientation_map.sh)

create_ssn_connectivity(orientation_map, sigma_e, sigma_i) ==
    IF ConnectivityRaises(orientation_map)
    THEN [kind |-> "error", type |-> "ValueError"]
    ELSE [kind |-> "ok",
          exc |-> Kernel(orientation_map, sigma_e),
          inh |-> Kernel(orientation_map, sigma_i)]

(***************************************************************************)
(* SSNModel.convolve_with_kernel: scipy.signal.convolve2d(activity, kernel, *)
(* mode='same', boundary='wrap').                                          *)
(***************************************************************************)
\* scipy's boundary='symm': an index that leaves the input is mirrored at
\* the edge it left by.
WrapMirrored(i, n) == IF i < 0 THEN -1 - i ELSE IF i >= n THEN 2 * n - 1 - i ELSE i

\* scipy wraps an index that leaves the input once: below zero it adds the
\* input's length, at or above it it subtracts it.
Wrap(i, n) == IF i < 0 THEN n + i ELSE IF i >= n THEN i - n ELSE i

\* The sum behind one output cell: 'same' starts (K - 1) >> 1 into the full
\* convolution.
ConvolveCell(activity, kernel, p) ==
    LET o1 == (kernel.sh[1] - 1) \div 2
        o2 == (kernel.sh[2] - 1) \div 2
        terms == [sh |-> kernel.sh,
                  v |-> [q \in Cells(kernel.sh) |->
                           activity.v[<<Wrap(p[1] + o1 - q[1], activity.sh[1]),
                                        Wrap(p[2] + o2 - q[2], activity.sh[2])>>]
                           * kernel.v[q]]]
    IN  GridSum(terms)

\* The exact convolution, as numerators over the kernel's denominator.
ConvolveExact(activity, kernel) ==
    [sh |-> activity.sh,
     v |-> [p \in Cells(activity.sh) |-> ConvolveCell(activity, kernel, p)],
     den |-> kernel.den]

\* The convolution in the integer units of the activity.
convolve_with_kernel(activity, kernel) ==
    LET exact == ConvolveExact(activity, kernel)
    IN  [sh |-> activity.sh,
         v |-> [p \in Cells(activity.sh) |-> exact.v[p] \div exact.den]]

(***************************************************************************)
(* The transfer function and the optogenetic stimulus.                     *)
(***************************************************************************)
RECURSIVE Power(_, _)
Power(x, n) == IF n = 0 THEN 1 ELSE x * Power(x, n - 1)

\* The transfer without its clamp.
TransferNoClamp(input_current, n) ==
    [sh |-> input_current.sh,
     v |-> [p \in Cells(input_current.sh) |-> Power(input_current.v[p], n)]]

\* np.maximum(0, input_current) ** self.n
supralinear_transfer_function(input_current, n) ==
    [sh |-> input_current.sh,
     v |-> [p \in Cells(input_current.sh) |-> Power(Max(0, input_current.v[p]), n)]]

\* generate_input matching every cell within 45 degrees of column_tuning
\* instead of the cells equal to it.
GenerateInputNearby(opto_stim, orientation_map) ==
    LET opto_input == [sh |-> orientation_map.sh,
                       v |-> [p \in Cells(orientation_map.sh) |->
                                (IF Abs(orientation_map.v[p] - opto_stim.column_tuning) <= 45
                                 THEN 1 ELSE 0) * opto_stim.power]]
        mx == GridMax(opto_input)
    IN  IF mx > 0
        THEN [sh |-> opto_input.sh,
              v |-> [p \in Cells(opto_input.sh) |-> opto_input.v[p] \div mx]]
        ELSE opto_input

\* generate_input returning the scaled mask without dividing by its maximum.
GenerateInputUnnormalised(opto_stim, orientation_map) ==
    [sh |-> orientation_map.sh,
     v |-> [p \in Cells(orientation_map.sh) |->
              (IF orientation_map.v[p] = opto_stim.column_tuning THEN 1 ELSE 0)
              * opto_stim.power]]

\* OptogeneticStimulus.generate_input: the mask of the cells tuned to
\* column_tuning times the power, divided by its maximum when that is positive.
generate_opto_input(opto_stim, orientation_map) ==
    LET opto_input == [sh |-> orientation_map.sh,
                       v |-> [p \in Cells(orientation_map.sh) |->
                                (IF orientation_map.v[p] = opto_stim.column_tuning
                                 THEN 1 ELSE 0) * opto_stim.power]]
        mx == GridMax(opto_input)
    IN  IF mx > 0
        THEN [sh |-> opto_input.sh,
              v |-> [p \in Cells(opto_input.sh) |-> opto_input.v[p] \div mx]]
        ELSE opto_input

\* The opsin map added to the optogenetic input instead of scaling it.
OpsinAdded(opto_input, opsin_map) == Add(opto_input, opsin_map)

\* opto_input * opsin_map
apply_opsin_map(opto_input, opsin_map) == Multiply(opto_input, opsin_map)

(***************************************************************************)
(* Bounds and the inputs the model draws from.                             *)
(***************************************************************************)
\* run_trial calls made on one SSNModel instance.
MaxTrials == 2

\* A grid from its cells in row-major order.
FromRows(sh, cells) ==
    [sh |-> sh, v |-> [p \in Cells(sh) |-> cells[p[1] * sh[2] + p[2] + 1]]]

\* Orientation fields, in degrees: square ones, ones whose shape differs from
\* the configured grid size, and ones that are not square.
OrientationMaps ==
    { FromRows(<<2, 2>>, <<0, 0, 0, 0>>),
      FromRows(<<2, 2>>, <<0, 90, 90, 0>>),
      FromRows(<<2, 2>>, <<90, 45, 135, 0>>),
      FromRows(<<3, 3>>, <<0, 45, 90, 135, 0, 45, 90, 135, 0>>),
      FromRows(<<1, 1>>, <<0>>),
      FromRows(<<1, 2>>, <<0, 90>>),
      FromRows(<<2, 3>>, <<0, 90, 0, 90, 0, 90>>) }

GridSizes == { <<2, 2>>, <<3, 3>> }

\* (sigma_e, sigma_i)
Sigmas == { <<2, 1>> }

Exponents == { 1, 2 }

\* The frames VisualStimulus.generate_input(size) may hand over: zero
\* contrast, uniform of either sign, gratings along either axis, one cell.
VisualFrames(sh) ==
    { Const(sh, 0), Const(sh, 1), Const(sh, -1),
      [sh |-> sh, v |-> [p \in Cells(sh) |-> IF p[2] % 2 = 0 THEN 1 ELSE -1]],
      [sh |-> sh, v |-> [p \in Cells(sh) |-> IF p[1] % 2 = 0 THEN -1 ELSE 1]],
      [sh |-> sh, v |-> [p \in Cells(sh) |-> IF p = <<0, 0>> THEN 1 ELSE 0]] }

OptoStimuli ==
    [column_tuning : {0, 90}, num_columns : {10}, column_area : {50}, power : {0, 1}]

\* opsin_map arguments: absent, uniform or graded over the grid, or of
\* another shape.
OpsinMaps(sh) ==
    { None, Const(sh, 1),
      [sh |-> sh, v |-> [p \in Cells(sh) |-> IF p[1] = 0 THEN 1 ELSE 0]],
      Const(<<3, 2>>, 1) }

\* trial_duration and bin_size as decimal literals, in hundredths of a second.
Durations == { -10, 0, 5, 10, 20, 30, 35 }

BinSizes == { 0, 10 }

(***************************************************************************)
(* One SSNModel instance and the run_trial calls made on it.               *)
(***************************************************************************)
VARIABLES
    self,              \* the instance's fields
    pc,                \* "new", "ctor_raised", "idle", "loop", "returned", "raised"
    args,              \* the arguments of the call in progress
    time_bins,         \* run_trial's locals
    activity,
    visual_input,
    opto_input,
    current_activity,
    t,
    ret,               \* what the call handed to its caller
    calls,             \* run_trial calls made so far
    main_pc,           \* where src/main.py stands
    condition,         \* the index of the sweep's current condition
    stimuli,           \* visual_stimulus and opto_stimulus of the condition
    trial_data,        \* the trace run_trial returned for it
    trial_data_all_conditions,
    metadata,
    files,             \* what np.save has written
    uncaught           \* what ended the script early

trial_vars == <<self, pc, args, time_bins, activity, visual_input, opto_input,
                current_activity, t, ret, calls>>

sweep_vars == <<main_pc, condition, stimuli, trial_data, trial_data_all_conditions,
                metadata, files, uncaught>>

vars == <<trial_vars, sweep_vars>>

Raise(type, line) == [kind |-> "error", type |-> type, line |-> line]

\* src/main.py is not running.
NoSweep ==
    /\ main_pc = None
    /\ condition = None
    /\ stimuli = None
    /\ trial_data = None
    /\ trial_data_all_conditions = None
    /\ metadata = None
    /\ files = None
    /\ uncaught = None

\* int(trial_duration / bin_size), bin_size not zero.
TimeBins(trial_duration, bin_size) ==
    FloatToInt(FloatDiv(FromDecimal(trial_duration, 100), FromDecimal(bin_size, 100)))

\* The optogenetic drive of a call: generate_input, scaled by the opsin map
\* when one is given.
OptoDrive(model, a) ==
    LET generated == generate_opto_input(a.opto_stim, model.orientation_map)
    IN  IF a.opsin_map = None THEN generated
        ELSE apply_opsin_map(generated, a.opsin_map)

\* current_activity = np.zeros((self.size[0], self.size[1]))
InitialActivity(size) == Zeros(size)

\* The inhibitory term added instead of subtracted.
TotalInputInhAdded(visual, opto, recurrent_exc, recurrent_inh) ==
    Add(Add(Add(visual, opto), recurrent_exc), recurrent_inh)

\* visual_input + opto_input + recurrent_exc - recurrent_inh
TotalInput(visual, opto, recurrent_exc, recurrent_inh) ==
    Subtract(Add(Add(visual, opto), recurrent_exc), recurrent_inh)

\* Whether that sum raises ValueError: numpy adds left to right.
TotalInputRaises(visual, opto, recurrent_exc, recurrent_inh) ==
    \/ ~Broadcastable(visual.sh, opto.sh)
    \/ ~Broadcastable(BroadcastShape(visual.sh, opto.sh), recurrent_exc.sh)
    \/ ~Broadcastable(BroadcastShape(BroadcastShape(visual.sh, opto.sh), recurrent_exc.sh),
                      recurrent_inh.sh)

\* The call's locals before and after a call.
NoCall ==
    /\ args = None
    /\ time_bins = None
    /\ activity = None
    /\ visual_input = None
    /\ opto_input = None
    /\ current_activity = None
    /\ t = None
    /\ ret = None

\* SSNModel(...) is about to run: the fields are the constructor's arguments.
Init ==
    /\ self \in [orientation_map : OrientationMaps, size : GridSizes,
                 sigma_e : {sg[1] : sg \in Sigmas}, sigma_i : {sg[2] : sg \in Sigmas},
                 n : Exponents, exc_conn : {None}, inh_conn : {None}]
    /\ pc = "new"
    /\ NoCall
    /\ calls = 0
    /\ NoSweep

\* SSNModel.__init__: the fields, then the two kernels; an exception of
\* create_ssn_connectivity leaves no instance.
Construct ==
    /\ pc = "new"
    /\ LET conn == create_ssn_connectivity(self.orientation_map, self.sigma_e, self.sigma_i)
       IN  IF conn.kind = "error"
           THEN /\ pc' = "ctor_raised"
                /\ ret' = Raise(conn.type, 47)
                /\ UNCHANGED self
           ELSE /\ pc' = "idle"
                /\ self' = [self EXCEPT !.exc_conn = conn.exc, !.inh_conn = conn.inh]
                /\ UNCHANGED ret
    /\ UNCHANGED <<args, time_bins, activity, visual_input, opto_input,
                   current_activity, t, calls>>
    /\ UNCHANGED sweep_vars

\* run_trial up to its loop: the time configuration, the trace's allocation,
\* the two drives and the initial activity.
RunTrialEnter ==
    /\ pc = "idle"
    /\ calls < MaxTrials
    /\ \E d \in Durations, b \in BinSizes :
       \E tb \in { IF b = 0 THEN None ELSE TimeBins(d, b) } :
       \E vf \in VisualFrames(self.size), os \in OptoStimuli, om \in OpsinMaps(self.size) :
          LET a  == [visual_frame |-> vf, opto_stim |-> os, opsin_map |-> om,
                     trial_duration |-> d, bin_size |-> b]
              generated == generate_opto_input(os, self.orientation_map)
              failure ==
                  IF b = 0 THEN Raise("ZeroDivisionError", 95)
                  ELSE IF tb < 0 THEN Raise("ValueError", 96)
                  ELSE IF om # None /\ ~Broadcastable(generated.sh, om.sh)
                       THEN Raise("ValueError", 104)
                  ELSE None
          IN  /\ args' = a
              /\ calls' = calls + 1
              /\ IF failure # None
                 THEN /\ pc' = "raised"
                      /\ ret' = failure
                      /\ UNCHANGED <<time_bins, activity, visual_input, opto_input,
                                     current_activity, t>>
                 ELSE /\ pc' = "loop"
                      /\ time_bins' = tb
                      /\ activity' = [k \in 1 .. tb |-> Zeros(self.size)]
                      /\ visual_input' = vf
                      /\ opto_input' = OptoDrive(self, a)
                      /\ current_activity' = InitialActivity(self.size)
                      /\ t' = 0
                      /\ ret' = None
    /\ UNCHANGED self
    /\ UNCHANGED sweep_vars

\* What one pass of the loop body does to the call's locals: the recurrent
\* terms, the total input, the transfer and the store into slice t.
LoopBody ==
    /\ pc = "loop"
    /\ t < time_bins
    /\ LET recurrent_exc == convolve_with_kernel(current_activity, self.exc_conn)
           recurrent_inh == convolve_with_kernel(current_activity, self.inh_conn)
       IN  IF TotalInputRaises(visual_input, opto_input, recurrent_exc, recurrent_inh)
           THEN /\ pc' = "raised"
                /\ ret' = Raise("ValueError", 113)
                /\ UNCHANGED <<activity, current_activity, t>>
           ELSE LET total_input == TotalInput(visual_input, opto_input,
                                              recurrent_exc, recurrent_inh)
                    new_activity == supralinear_transfer_function(total_input, self.n)
                IN  /\ current_activity' = new_activity
                    /\ IF AssignableTo(new_activity, self.size)
                       THEN /\ activity' = [activity EXCEPT
                                              ![t + 1] = BroadcastTo(new_activity, self.size)]
                            /\ t' = t + 1
                            /\ UNCHANGED <<pc, ret>>
                       ELSE /\ pc' = "raised"
                            /\ ret' = Raise("ValueError", 119)
                            /\ UNCHANGED <<activity, t>>
    /\ UNCHANGED <<args, time_bins, visual_input, opto_input, calls>>
    /\ UNCHANGED sweep_vars

\* A variant of the pass that leaves its excitatory term in the kernel's buffer.
StepInPlace ==
    /\ LoopBody
    /\ self' = [self EXCEPT !.exc_conn =
                   [sh |-> @.sh, den |-> @.den,
                    v |-> [p \in Cells(@.sh) |->
                             @.v[p] + current_activity.v[<<p[1] % current_activity.sh[1],
                                                           p[2] % current_activity.sh[2]>>]]]]

\* One pass of the loop: no field of the instance is assigned.
Step ==
    /\ LoopBody
    /\ UNCHANGED self

\* return activity
Return ==
    /\ pc = "loop"
    /\ t = time_bins
    /\ pc' = "returned"
    /\ ret' = [kind |-> "trace", trace |-> activity]
    /\ UNCHANGED <<self, args, time_bins, activity, visual_input, opto_input,
                   current_activity, t, calls>>
    /\ UNCHANGED sweep_vars

\* The caller takes the trace or the exception; the call's locals are gone.
Resume ==
    /\ pc \in {"returned", "raised"}
    /\ pc' = "idle"
    /\ args' = None
    /\ time_bins' = None
    /\ activity' = None
    /\ visual_input' = None
    /\ opto_input' = None
    /\ current_activity' = None
    /\ t' = None
    /\ ret' = None
    /\ UNCHANGED <<self, calls>>
    /\ UNCHANGED sweep_vars

Next == Construct \/ RunTrialEnter \/ Step \/ Return \/ Resume

Spec == Init /\ [][Next]_vars
(***************************************************************************)
(* The claims about run_trial and the kernels, checked under Spec.         *)
(***************************************************************************)
InCall == pc \in {"loop", "returned"}

Slices == DOMAIN activity

\* The optogenetic frame of the call, from its arguments alone.
OptoFrame ==
    LET generated == generate_opto_input(args.opto_stim, self.orientation_map)
    IN  IF args.opsin_map = None THEN generated
        ELSE Multiply(generated, args.opsin_map)

\* max(0, x)^n, cell by cell.
ClampThenPower(x, n) ==
    [sh |-> x.sh, v |-> [p \in Cells(x.sh) |-> Power(IF x.v[p] > 0 THEN x.v[p] ELSE 0, n)]]

\* C1: every cell of every slice of the trace, and the running activity
\* after every step, is non-negative, whatever the sign of the drive.
C1_ActivityNonNegative ==
    /\ InCall => \A k \in Slices : NonNegative(activity[k])
    /\ pc = "loop" => NonNegative(current_activity)
    /\ pc = "returned" => \A k \in DOMAIN ret.trace : NonNegative(ret.trace[k])

\* A returned trace of two or more steps whose drive had a negative cell,
\* under the exponent 1 that would let a negative value through.
C1_Witness ==
    /\ pc = "returned"
    /\ time_bins >= 2
    /\ self.n = 1
    /\ \E p \in Cells(self.size) : args.visual_frame.v[p] < 0 /\ At(OptoFrame, p) = 0
    /\ \E p \in Cells(self.size) : ret.trace[time_bins].v[p] > 0

\* C2: with an all-zero visual frame and an all-zero (opsin-scaled)
\* optogenetic frame the activity is all-zero after every step and every
\* slice of the trace is all-zero.
C2_ZeroDriveStaysZero ==
    (InCall /\ AllZero(args.visual_frame) /\ AllZero(OptoFrame)) =>
        /\ \A k \in Slices : AllZero(activity[k])
        /\ AllZero(current_activity)
        /\ pc = "returned" => \A k \in DOMAIN ret.trace : AllZero(ret.trace[k])

\* A returned all-zero-drive trial of three steps in which the light was on
\* and the opsin map took it away.
C2_Witness ==
    /\ pc = "returned"
    /\ time_bins = 3
    /\ AllZero(args.visual_frame)
    /\ args.opsin_map # None
    /\ ~AllZero(generate_opto_input(args.opto_stim, self.orientation_map))
    /\ AllZero(OptoFrame)

\* C3: the returned trace has floor(trial_duration / bin_size) slices; 0.3 s
\* in bins of 0.1 s gives 3.
C3_SliceCount ==
    pc = "returned" =>
        Len(ret.trace) = args.trial_duration \div args.bin_size

\* C4: a time configuration of fewer than one step is rejected: no trace,
\* and in particular no empty trace, is returned for it.
C4_NoStepsRejected ==
    pc = "returned" => Len(ret.trace) >= 1

\* The shapes taking part in the call are not all the configured grid size.
ShapeMismatch ==
    \/ self.exc_conn.sh # self.size
    \/ self.inh_conn.sh # self.size
    \/ self.orientation_map.sh # self.size
    \/ args.visual_frame.sh # self.size
    \/ generate_opto_input(args.opto_stim, self.orientation_map).sh # self.size
    \/ (args.opsin_map # None /\ args.opsin_map.sh # self.size)

\* C5: with mismatched shapes the call is rejected before its first step: no
\* step of the loop executes and no trace with a slice in it is returned.
C5_ShapeMismatchRejected ==
    (pc \in {"loop", "returned"} /\ ShapeMismatch) =>
        /\ ~(pc = "loop" /\ t >= 1)
        /\ ~(pc = "returned" /\ Len(ret.trace) >= 1)

\* C6: slice k is transfer(V + O + conv(prev, exc) - conv(prev, inh)) of the
\* slice before it (of the zero grid for the first), V and O being the
\* call's frames at every step; holding in every state, it also says that a
\* slice once written is not changed.
C6_SliceIsTransition ==
    InCall =>
        \A k \in 1 .. t :
            LET prev == IF k = 1 THEN Zeros(self.size) ELSE activity[k - 1]
                exc  == convolve_with_kernel(prev, self.exc_conn)
                inh  == convolve_with_kernel(prev, self.inh_conn)
                drive == Subtract(Add(Add(args.visual_frame, OptoFrame), exc), inh)
            IN  activity[k] = ClampThenPower(drive, self.n)

\* A returned trace whose recurrent term made the second slice differ from
\* the first.
C6_Witness ==
    /\ pc = "returned"
    /\ time_bins >= 2
    /\ ret.trace[2] # ret.trace[1]
    /\ ~AllZero(OptoFrame)

\* The trace, k steps long, of the call on an instance with the kernels
\* fresh.
RECURSIVE FreshTrace(_, _)
FreshTrace(fresh, k) ==
    IF k = 0 THEN <<>>
    ELSE LET before == FreshTrace(fresh, k - 1)
             prev   == IF k = 1 THEN Zeros(self.size) ELSE before[k - 1]
             drive  == Subtract(Add(Add(args.visual_frame, OptoFrame),
                                    convolve_with_kernel(prev, fresh.exc)),
                                convolve_with_kernel(prev, fresh.inh))
         IN  Append(before, ClampThenPower(drive, self.n))

\* C7: run_trial leaves the kernels and the orientation map as the
\* constructor made them, and a call returns what the same call returns on a
\* fresh instance built from the same constructor arguments, however many
\* calls came before it.
C7_NoStateBetweenTrials ==
    pc \in {"idle", "loop", "returned", "raised"} =>
        \A fresh \in {create_ssn_connectivity(self.orientation_map,
                                              self.sigma_e, self.sigma_i)} :
            /\ self.exc_conn = fresh.exc
            /\ self.inh_conn = fresh.inh
            /\ pc = "returned" => ret.trace = FreshTrace(fresh, time_bins)

\* The second call on an instance returns a trace with activity in it.
C7_Witness ==
    /\ pc = "returned"
    /\ calls = 2
    /\ time_bins >= 2
    /\ ~AllZero(ret.trace[2])

\* C8: for a field of any shape the two kernels have the field's shape,
\* non-negative weights and, each, a sum of 1.
C8_KernelsNormalised ==
    pc # "new" =>
        /\ pc # "ctor_raised"
        /\ \A kernel \in {self.exc_conn, self.inh_conn} :
              /\ kernel.sh = self.orientation_map.sh
              /\ NonNegative(kernel)
              /\ kernel.den > 0
              /\ GridSum(kernel) = kernel.den

(***************************************************************************)
(* convolve_with_kernel as a function of its arguments: a grid, a kernel   *)
(* and a circular shift are drawn, and the convolution is taken of the     *)
(* shifted grid and shifted after being taken of the grid as it is.        *)
(***************************************************************************)
\* The shifts (dx, dy) run over 0 .. MaxShift on each axis.
MaxShift == 2

\* np.roll(g, (dx, dy), axis=(0, 1)): the cell at (i, j) moves to
\* ((i + dx) mod rows, (j + dy) mod cols).
Roll(g, dx, dy) ==
    [sh |-> g.sh,
     v |-> [p \in Cells(g.sh) |->
              g.v[<<(p[1] - dx) % g.sh[1], (p[2] - dy) % g.sh[2]>>]]]

\* Activity grids: every 2x2 grid over {0, 1, 2}, and on the other shapes
\* one active cell at each position and a grid with all its cells different.
ActivityGrids ==
    { FromRows(<<2, 2>>, c) : c \in [1 .. 4 -> 0 .. 2] }
    \cup UNION { { [sh |-> sh, v |-> [p \in Cells(sh) |-> IF p = q THEN 1 ELSE 0]]
                     : q \in Cells(sh) }
                 \cup { [sh |-> sh, v |-> [p \in Cells(sh) |-> p[1] * sh[2] + p[2]]] }
                 : sh \in { <<3, 3>>, <<2, 3>>, <<3, 2>> } }

\* Kernels: the ones create_ssn_connectivity builds at either sigma from the
\* square orientation fields, and one with all its weights different.
ConvKernels ==
    { Kernel(m, sigma) : m \in { om \in OrientationMaps : om.sh[1] = om.sh[2] },
                         sigma \in {1, 2} }
    \cup { [sh |-> <<2, 3>>, den |-> 21,
            v |-> [p \in Cells(<<2, 3>>) |-> p[1] * 3 + p[2] + 1]] }

NoInstance ==
    /\ self = None
    /\ time_bins = None
    /\ activity = None
    /\ visual_input = None
    /\ opto_input = None
    /\ current_activity = None
    /\ t = None
    /\ calls = None

InitConv ==
    /\ pc = "conv_new"
    /\ args \in [activity : ActivityGrids, kernel : ConvKernels,
                 dx : 0 .. MaxShift, dy : 0 .. MaxShift]
    /\ ret = None
    /\ NoInstance
    /\ NoSweep

\* Both orders of shifting and convolving, each through convolve_with_kernel,
\* and the exact sums behind them.
ConvolveShifted ==
    /\ pc = "conv_new"
    /\ pc' = "conv_done"
    /\ ret' = [of_shifted |->
                   convolve_with_kernel(Roll(args.activity, args.dx, args.dy), args.kernel),
               shifted |->
                   Roll(convolve_with_kernel(args.activity, args.kernel), args.dx, args.dy),
               exact_of_shifted |->
                   ConvolveExact(Roll(args.activity, args.dx, args.dy), args.kernel).v,
               exact_shifted |->
                   Roll(ConvolveExact(args.activity, args.kernel), args.dx, args.dy).v]
    /\ UNCHANGED <<self, args, time_bins, activity, visual_input, opto_input,
                   current_activity, t, calls>>
    /\ UNCHANGED sweep_vars

NextConv == ConvolveShifted

SpecConv == InitConv /\ [][NextConv]_vars

\* C9: the convolution of the shifted grid is the shifted convolution of the
\* grid, in the units of the activity and as exact sums, for every grid,
\* kernel and shift drawn.
C9_ConvolutionCommutesWithShift ==
    pc = "conv_done" =>
        /\ ret.of_shifted = ret.shifted
        /\ ret.exact_of_shifted = ret.exact_shifted

\* A shift on both axes of a grid with one active cell in its last row and
\* column, which the shift carries across both edges, under a kernel of more
\* than one cell, the shifted convolution differing from the unshifted one.
C9_Witness ==
    /\ pc = "conv_done"
    /\ args.dx % args.activity.sh[1] # 0
    /\ args.dy % args.activity.sh[2] # 0
    /\ args.activity.sh = <<3, 3>>
    /\ args.activity.v[<<2, 2>>] = 1
    /\ args.kernel.sh = <<3, 3>>
    /\ ret.exact_shifted # ConvolveExact(args.activity, args.kernel).v
    /\ ret.exact_of_shifted[<<0, 0>>] > 0

(***************************************************************************)
(* src/main.py: the maps are loaded, the model is built, every condition   *)
(* is plotted, run and collected, and the collected lists are saved.       *)
(***************************************************************************)
contrasts == <<20, 50, 100>>        \* in hundredths

orientations == <<0, 90>>

column_tunings == <<0, 90>>

\* The conditions in the order of the three nested loops.
Conditions ==
    [i \in 1 .. Len(contrasts) * Len(orientations) * Len(column_tunings) |->
        [contrast |-> contrasts[(i - 1) \div (Len(orientations) * Len(column_tunings)) + 1],
         orientation |-> orientations[(((i - 1) \div Len(column_tunings)) % Len(orientations)) + 1],
         tuning |-> column_tunings[((i - 1) % Len(column_tunings)) + 1]]]

\* What a statement of the script can end in: its normal completion or an
\* exception of one of these types.
Outcomes(types) == {"ok"} \cup types

\* An exception no handler takes: the interpreter prints the traceback and
\* the script ends there.
Uncaught(type, line) ==
    /\ main_pc' = "traceback"
    /\ uncaught' = Raise(type, line)

InitSweep ==
    /\ main_pc = "load_orientation_map"
    /\ condition = 1
    /\ stimuli = None
    /\ trial_data = None
    /\ trial_data_all_conditions = None
    /\ metadata = None
    /\ files = [output_activity |-> None, metadata |-> None]
    /\ uncaught = None
    /\ pc = None
    /\ args = None
    /\ ret = None
    /\ NoInstance

\* try: load_orientation_map(...) except Exception: print, exit(1)
LoadOrientationMap ==
    /\ main_pc = "load_orientation_map"
    /\ \E outcome \in Outcomes({"Exception"}) :
          IF outcome = "ok"
          THEN main_pc' = "load_expression_maps" /\ UNCHANGED uncaught
          ELSE main_pc' = "exit_1" /\ uncaught' = [kind |-> "exit", code |-> 1, line |-> 25]
    /\ UNCHANGED <<condition, stimuli, trial_data, trial_data_all_conditions,
                   metadata, files>>
    /\ UNCHANGED trial_vars

\* try: search_and_load_tif(...) twice except Exception: print, exit(1)
LoadExpressionMaps ==
    /\ main_pc = "load_expression_maps"
    /\ \E outcome \in Outcomes({"Exception"}) :
          IF outcome = "ok"
          THEN main_pc' = "construct" /\ UNCHANGED uncaught
          ELSE main_pc' = "exit_1" /\ uncaught' = [kind |-> "exit", code |-> 1, line |-> 34]
    /\ UNCHANGED <<condition, stimuli, trial_data, trial_data_all_conditions,
                   metadata, files>>
    /\ UNCHANGED trial_vars

\* ssn_model = SSNModel(...), then the two empty lists and the time
\* configuration.
ConstructModel ==
    /\ main_pc = "construct"
    /\ \E outcome \in Outcomes({"ValueError"}) :
          IF outcome = "ok"
          THEN /\ main_pc' = "stimuli"
               /\ trial_data_all_conditions' = <<>>
               /\ metadata' = <<>>
               /\ UNCHANGED uncaught
          ELSE /\ Uncaught(outcome, 38)
               /\ UNCHANGED <<trial_data_all_conditions, metadata>>
    /\ UNCHANGED <<condition, stimuli, trial_data, files>>
    /\ UNCHANGED trial_vars

\* The head of the loops and the two stimulus objects with their inputs; past
\* the last condition the loops are left.
MakeStimuli ==
    /\ main_pc = "stimuli"
    /\ IF condition > Len(Conditions)
       THEN /\ main_pc' = "save_trial_data"
            /\ UNCHANGED stimuli
       ELSE /\ main_pc' = "plot_visual"
            /\ stimuli' =
                 [visual_stimulus |->
                      [orientation |-> Conditions[condition].orientation,
                       spatial_frequency |-> 2,
                       contrast |-> Conditions[condition].contrast,
                       size |-> 2],
                  opto_stimulus |->
                      [column_tuning |-> Conditions[condition].tuning,
                       num_columns |-> 10, column_area |-> 50, power |-> 1]]
    /\ UNCHANGED <<condition, trial_data, trial_data_all_conditions, metadata,
                   files, uncaught>>
    /\ UNCHANGED trial_vars

\* plot_stimulus(visual_input, ...): it writes a figure file.
PlotVisual ==
    /\ main_pc = "plot_visual"
    /\ \E outcome \in Outcomes({"OSError"}) :
          IF outcome = "ok"
          THEN main_pc' = "plot_opto" /\ UNCHANGED uncaught
          ELSE Uncaught(outcome, 79)
    /\ UNCHANGED <<condition, stimuli, trial_data, trial_data_all_conditions,
                   metadata, files>>
    /\ UNCHANGED trial_vars

\* plot_stimulus(opto_input, ...)
PlotOpto ==
    /\ main_pc = "plot_opto"
    /\ \E outcome \in Outcomes({"OSError"}) :
          IF outcome = "ok"
          THEN main_pc' = "run_trial" /\ UNCHANGED uncaught
          ELSE Uncaught(outcome, 82)
    /\ UNCHANGED <<condition, stimuli, trial_data, trial_data_all_conditions,
                   metadata, files>>
    /\ UNCHANGED trial_vars

\* trial_data = ssn_model.run_trial(...): the trace of the stimuli passed, or
\* one of run_trial's exceptions.
RunTrial ==
    /\ main_pc = "run_trial"
    /\ \E outcome \in Outcomes({"ValueError", "MemoryError"}) :
          IF outcome = "ok"
          THEN /\ main_pc' = "append"
               /\ trial_data' = [kind |-> "trace",
                                 visual_stim |-> stimuli.visual_stimulus,
                                 opto_stim |-> stimuli.opto_stimulus]
               /\ UNCHANGED uncaught
          ELSE /\ Uncaught(outcome, 87)
               /\ UNCHANGED trial_data
    /\ UNCHANGED <<condition, stimuli, trial_data_all_conditions, metadata, files>>
    /\ UNCHANGED trial_vars

\* The appends with the record's orientation and column tuning exchanged.
AppendDataExchanged ==
    /\ main_pc = "append"
    /\ trial_data_all_conditions' = Append(trial_data_all_conditions, trial_data)
    /\ metadata' = Append(metadata,
                          [contrast |-> Conditions[condition].contrast,
                           orientation |-> Conditions[condition].tuning,
                           column_tuning |-> Conditions[condition].orientation])
    /\ condition' = condition + 1
    /\ main_pc' = "stimuli"
    /\ UNCHANGED <<stimuli, trial_data, files, uncaught>>
    /\ UNCHANGED trial_vars

\* The two appends and the print; the loops move on to the next condition.
AppendData ==
    /\ main_pc = "append"
    /\ trial_data_all_conditions' = Append(trial_data_all_conditions, trial_data)
    /\ metadata' = Append(metadata,
                          [contrast |-> Conditions[condition].contrast,
                           orientation |-> Conditions[condition].orientation,
                           column_tuning |-> Conditions[condition].tuning])
    /\ condition' = condition + 1
    /\ main_pc' = "stimuli"
    /\ UNCHANGED <<stimuli, trial_data, files, uncaught>>
    /\ UNCHANGED trial_vars

\* np.save(output_path, trial_data_all_conditions)
SaveTrialData ==
    /\ main_pc = "save_trial_data"
    /\ \E outcome \in Outcomes({"OSError"}) :
          IF outcome = "ok"
          THEN /\ main_pc' = "save_metadata"
               /\ files' = [files EXCEPT !.output_activity = trial_data_all_conditions]
               /\ UNCHANGED uncaught
          ELSE /\ Uncaught(outcome, 107)
               /\ UNCHANGED files
    /\ UNCHANGED <<condition, stimuli, trial_data, trial_data_all_conditions, metadata>>
    /\ UNCHANGED trial_vars

\* np.save(metadata_path, metadata)
SaveMetadata ==
    /\ main_pc = "save_metadata"
    /\ \E outcome \in Outcomes({"OSError"}) :
          IF outcome = "ok"
          THEN /\ main_pc' = "plots"
               /\ files' = [files EXCEPT !.metadata = metadata]
               /\ UNCHANGED uncaught
          ELSE /\ Uncaught(outcome, 112)
               /\ UNCHANGED files
    /\ UNCHANGED <<condition, stimuli, trial_data, trial_data_all_conditions, metadata>>
    /\ UNCHANGED trial_vars

\* plot_orientation_map, plot_condition_grid and the closing print.
FinalPlots ==
    /\ main_pc = "plots"
    /\ \E outcome \in Outcomes({"OSError"}) :
          IF outcome = "ok"
          THEN main_pc' = "done" /\ UNCHANGED uncaught
          ELSE Uncaught(outcome, 115)
    /\ UNCHANGED <<condition, stimuli, trial_data, trial_data_all_conditions,
                   metadata, files>>
    /\ UNCHANGED trial_vars

NextSweep ==
    \/ LoadOrientationMap
    \/ LoadExpressionMaps
    \/ ConstructModel
    \/ MakeStimuli
    \/ PlotVisual
    \/ PlotOpto
    \/ RunTrial
    \/ AppendData
    \/ SaveTrialData
    \/ SaveMetadata
    \/ FinalPlots

SpecSweep == InitSweep /\ [][NextSweep]_vars

\* The script has ended.
Ended == main_pc \in {"done", "exit_1", "traceback"}

\* A statement of the loop body, before the appends, raised.
TrialFailed == uncaught # None /\ uncaught.kind = "error" /\ uncaught.line \in 61 .. 93

\* C10: a failure of one trial aborts only that trial: when the script has
\* ended after a trial failed, every condition was taken up in its turn, and
\* the traces and metadata collected from the completed ones are saved.
C10_FailureAbortsOnlyTrial ==
    (Ended /\ TrialFailed) =>
        /\ condition = Len(Conditions) + 1
        /\ files.output_activity = trial_data_all_conditions
        /\ files.metadata = metadata

\* The two lists exist: the script is past their creation.
Collecting ==
    \/ main_pc \in {"stimuli", "plot_visual", "plot_opto", "run_trial", "append",
                    "save_trial_data", "save_metadata", "plots", "done"}
    \/ main_pc = "traceback" /\ uncaught.line > 54

MaxPower == 3

\* The steps of the trials run with the generated inputs.
OptoSteps == 2

\* The first k slices run_trial's loop writes on an instance with kernels
\* conn and exponent n, under the frames visual and opto.
RECURSIVE TrialSlices(_, _, _, _, _)
TrialSlices(conn, n, visual, opto, k) ==
    IF k = 0 THEN <<>>
    ELSE CHOOSE slices \in
           { Append(before,
                    supralinear_transfer_function(
                        TotalInput(visual, opto,
                                   convolve_with_kernel(
                                       IF k = 1 THEN InitialActivity(visual.sh)
                                       ELSE before[k - 1], conn.exc),
                                   convolve_with_kernel(
                                       IF k = 1 THEN InitialActivity(visual.sh)
                                       ELSE before[k - 1], conn.inh)),
                        n))
             : before \in { TrialSlices(conn, n, visual, opto, k - 1) } } : TRUE

\* run_trial(visual_stim, opto_stim) without an opsin map on an instance
\* whose grid size is the field's shape: None when the constructor raises.
TrialWith(orientation_map, visual_frame, opto_stim) ==
    CHOOSE trace \in
      { IF conn.kind = "error" THEN None
        ELSE TrialSlices(conn, 2, visual_frame,
                         generate_opto_input(opto_stim, orientation_map), OptoSteps)
        : conn \in { create_ssn_connectivity(orientation_map, 2, 1) } } : TRUE

InitOpto ==
    /\ pc = "opto_new"
    /\ \E om \in OrientationMaps :
          args \in [opto_stim : [column_tuning : {0, 45, 90}, num_columns : {10},
                                 column_area : {50}, power : -1 .. MaxPower],
                    other : [num_columns : {10, 20}, column_area : {50, 100},
                             power : 1 .. MaxPower],
                    orientation_map : {om},
                    visual_frame : VisualFrames(om.sh)]
    /\ ret = None
    /\ NoInstance
    /\ NoSweep

\* The second stimulus: the first with the other power, num_columns and
\* column_area.
OtherStimulus ==
    [column_tuning |-> args.opto_stim.column_tuning,
     num_columns |-> args.other.num_columns,
     column_area |-> args.other.column_area,
     power |-> args.other.power]

\* opto_stim.generate_input(size, orientation_map) for both stimuli.
GenerateInput ==
    /\ pc = "opto_new"
    /\ pc' = "opto_generated"
    /\ ret' = [drive |-> generate_opto_input(args.opto_stim, args.orientation_map),
               other_drive |-> generate_opto_input(OtherStimulus, args.orientation_map)]
    /\ UNCHANGED <<self, args, time_bins, activity, visual_input, opto_input,
                   current_activity, t, calls>>
    /\ UNCHANGED sweep_vars

\* run_trial with each of the two stimuli.
RunTrials ==
    /\ pc = "opto_generated"
    /\ pc' = "opto_done"
    /\ ret' = [drive |-> ret.drive,
               other_drive |-> ret.other_drive,
               trace |-> TrialWith(args.orientation_map, args.visual_frame,
                                   args.opto_stim),
               other_trace |-> TrialWith(args.orientation_map, args.visual_frame,
                                         OtherStimulus)]
    /\ UNCHANGED <<self, args, time_bins, activity, visual_input, opto_input,
                   current_activity, t, calls>>
    /\ UNCHANGED sweep_vars

NextOpto == GenerateInput \/ RunTrials

SpecOpto == InitOpto /\ [][NextOpto]_vars

\* The cells of the field equal to the stimulus's column tuning.
TunedCells ==
    { p \in Cells(args.orientation_map.sh) :
        args.orientation_map.v[p] = args.opto_stim.column_tuning }

\* C12: generate_input returns the all-zero grid, of the field's shape,
\* whenever no cell of the field equals column_tuning, whatever the power,
\* and whenever power = 0.
C12_ZeroWithoutTunedCellOrPower ==
    (pc \in {"opto_generated", "opto_done"}
     /\ (TunedCells = {} \/ args.opto_stim.power = 0)) =>
        /\ ret.drive.sh = args.orientation_map.sh
        /\ \A p \in Cells(ret.drive.sh) : ret.drive.v[p] = 0

\* A field of several orientations, none of them the column tuning, lit at
\* a power above 1.
C12_Witness ==
    /\ pc = "opto_generated"
    /\ TunedCells = {}
    /\ args.opto_stim.power >= 2
    /\ \E p, q \in Cells(args.orientation_map.sh) :
          args.orientation_map.v[p] # args.orientation_map.v[q]
    /\ \E p \in Cells(args.orientation_map.sh) :
          Abs(args.orientation_map.v[p] - args.opto_stim.column_tuning) = 45

BuiltKernels ==
    { Kernel(m, sigma) : m \in { om \in OrientationMaps : om.sh[1] = om.sh[2] },
                         sigma \in {1, 2} }

\* The grid midpoint (W // 2, H // 2), where create_ssn_connectivity puts the
\* kernel's peak.
Midpoint(sh) == <<sh[1] \div 2, sh[2] \div 2>>

\* The grid convolved in the state: the drawn one, circularly shifted.
ShiftedActivity == Roll(args.activity, args.dx, args.dy)

\* One cell of the grid is 1 and every other cell is 0.
SingleActiveCell(g) ==
    /\ \A p \in Cells(g.sh) : g.v[p] \in {0, 1}
    /\ Cardinality({ p \in Cells(g.sh) : g.v[p] = 1 }) = 1

\* C14: for a kernel built by create_ssn_connectivity for the grid and an
\* activity that is 1 at one cell p and 0 elsewhere, the convolution at p is
\* the kernel's weight at the grid midpoint, its maximum, for every p and
\* for even and odd grid sizes.
C14_RecurrentInputCentred ==
    (pc = "conv_done"
     /\ args.kernel \in BuiltKernels
     /\ args.kernel.sh = args.activity.sh
     /\ SingleActiveCell(args.activity)) =>
        \A p \in Cells(args.activity.sh) :
            ShiftedActivity.v[p] = 1 =>
                /\ ret.exact_of_shifted[p] = args.kernel.v[Midpoint(args.kernel.sh)]
                /\ \A q \in Cells(args.kernel.sh) : args.kernel.v[q] <= ret.exact_of_shifted[p]
=============================================================================
